---- MODULE Spec2Model ----
(***************************************************************************)
(* A model of consumer/pdata/metrics.go: the Metrics record tree, the      *)
(* Metric tagged union (DataType / SetDataType / shape accessors /         *)
(* copyData), Clone, the aggregate counts, the OTLP byte entry points and  *)
(* the generic Marshaler / Unmarshaler pipeline.                           *)
(*                                                                         *)
(* A Metrics is [orig |-> request]; a request, a resource and a scope are  *)
(* records holding the sequence of their elements, by value.  A Metric is  *)
(* [Data |-> pointer]: the oneof storage that SetDataType and copyData     *)
(* allocate lives in `heap`, so that two metrics can hold the same pointer *)
(* and a write through one is seen through the other.  A heap cell is the  *)
(* oneof wrapper together with its data points, [t, points]; Nil (0) is    *)
(* the nil pointer.  The program only ever compares pointers for equality, *)
(* so after each step the heap is kept in a normal form: the cells that    *)
(* some metric still points to, numbered in the order in which a walk over *)
(* m and then m2 meets them; all other cells are collected.                *)
(***************************************************************************)
EXTENDS Integers, Sequences, FiniteSets, TLC

VARIABLES heap, m, m2, buf, ret, calls

vars == <<heap, m, m2, buf, ret, calls>>

\* ------------------------------------------------------------------ bounds
\* MaxPoints: the data points a variant may hold where the program holds one
\* Metrics of a given shape.  PairNodes, PairPoints: the resources, scopes
\* and metrics a Metrics may hold together, and the points of a variant,
\* where the program builds a Metrics and holds a second one beside it.
MaxPoints == 2
PairNodes == 3
PairPoints == 1

PointValues == {7, 9}

\* The shapes of the Metrics that the runs on one Metrics start from: for
\* each resource, for each of its scopes, the number of its metrics.
InitShapes ==
  { <<>>, << <<>> >>, << <<0>> >>,
    << <<1>>, <<1>> >>, << <<0, 1>>, <<>>, <<1>> >> }

\* The inputs of the runs that hold two Metrics.
PairDataTypes == {0, 1, 7}
PairPointValues == {7}

\* Room for a variant of every metric of two trees.
HeapCells == 2 * PairNodes

\* ------------------------------------------------------------- basic values
Nil == 0

\* The outcome of a call that panics (a failed type assertion, a nil
\* dereference); it is no address and no count.
Panic == -1

MetricDataTypeNone == 0
MetricDataTypeIntGauge == 1
MetricDataTypeDoubleGauge == 2
MetricDataTypeIntSum == 3
MetricDataTypeDoubleSum == 4
MetricDataTypeIntHistogram == 5
MetricDataTypeHistogram == 6
MetricDataTypeSummary == 7

MetricDataTypes == MetricDataTypeNone .. MetricDataTypeSummary

Shapes == MetricDataTypes \ {MetricDataTypeNone}

OneofTypes ==
  { "Metric_IntGauge", "Metric_DoubleGauge", "Metric_IntSum", "Metric_DoubleSum",
    "Metric_IntHistogram", "Metric_DoubleHistogram", "Metric_DoubleSummary" }

\* ------------------------------------------------------------------- heap
Addrs == 1 .. HeapCells

FreeCell == [t |-> "free"]

EmptyHeap == [a \in Addrs |-> FreeCell]

FreeAddrs(h) == { a \in Addrs : h[a] = FreeCell }

\* new(T): the cell goes to the lowest free address.
Alloc(h, cell) ==
  LET a == CHOOSE x \in FreeAddrs(h) : \A y \in FreeAddrs(h) : x <= y
  IN  [h |-> [h EXCEPT ![a] = cell], a |-> a]

\* ------------------------------------------------------------ record tree
\* A nil *ExportMetricsServiceRequest, and the zero value Metrics{}.
NilRequest == [nil |-> TRUE]

ZeroMetrics == [orig |-> NilRequest]

\* NewMetrics(): Metrics{orig: &ExportMetricsServiceRequest{}}
NewMetrics == [orig |-> [ResourceMetrics |-> <<>>]]

NewResourceMetrics == [InstrumentationLibraryMetrics |-> <<>>]

NewInstrumentationLibraryMetrics == [Metrics |-> <<>>]

\* A Metric that no SetDataType has touched: Data is nil.
NewMetric == [Data |-> Nil]

\* md.ResourceMetrics(), rm.InstrumentationLibraryMetrics(), ilm.Metrics()
ResourceMetrics(md) == md.orig.ResourceMetrics

\* The positions <<i>>, <<i, j>> and <<i, j, k>> of the tree.
RmPaths(md) ==
  IF md.orig = NilRequest THEN {}
  ELSE { <<i>> : i \in 1 .. Len(ResourceMetrics(md)) }

IlmPaths(md) ==
  UNION { { <<p[1], j>> :
            j \in 1 .. Len(ResourceMetrics(md)[p[1]].InstrumentationLibraryMetrics) } :
          p \in RmPaths(md) }

MetricPaths(md) ==
  UNION { { <<p[1], p[2], k>> :
            k \in 1 .. Len(ResourceMetrics(md)[p[1]].InstrumentationLibraryMetrics[p[2]].Metrics) } :
          p \in IlmPaths(md) }

MetricAt(md, p) ==
  ResourceMetrics(md)[p[1]].InstrumentationLibraryMetrics[p[2]].Metrics[p[3]]

WithMetricAt(md, p, ms) ==
  [md EXCEPT !.orig.ResourceMetrics[p[1]].InstrumentationLibraryMetrics[p[2]].Metrics[p[3]] = ms]

Nodes(md) ==
  Cardinality(RmPaths(md)) + Cardinality(IlmPaths(md)) + Cardinality(MetricPaths(md))

\* The oneof storage a Metrics points to.
DataPtrs(md) == { MetricAt(md, p).Data : p \in MetricPaths(md) } \ {Nil}

\* The Data pointers of a Metrics in the order of a walk over the tree.
RECURSIVE WalkMetrics(_, _)
WalkMetrics(ms, k) ==
  IF k > Len(ms) THEN <<>> ELSE <<ms[k].Data>> \o WalkMetrics(ms, k + 1)

RECURSIVE WalkIlms(_, _)
WalkIlms(ilms, j) ==
  IF j > Len(ilms) THEN <<>>
  ELSE WalkMetrics(ilms[j].Metrics, 1) \o WalkIlms(ilms, j + 1)

RECURSIVE WalkRms(_, _)
WalkRms(rms, i) ==
  IF i > Len(rms) THEN <<>>
  ELSE WalkIlms(rms[i].InstrumentationLibraryMetrics, 1) \o WalkRms(rms, i + 1)

Walk(md) == IF md.orig = NilRequest THEN <<>> ELSE WalkRms(ResourceMetrics(md), 1)

\* The non-nil pointers of a walk, each once, in the order of their first
\* occurrence.
RECURSIVE Distinct(_, _, _)
Distinct(w, i, acc) ==
  IF i > Len(w) THEN acc
  ELSE IF w[i] = Nil \/ \E x \in 1 .. Len(acc) : acc[x] = w[i]
       THEN Distinct(w, i + 1, acc)
       ELSE Distinct(w, i + 1, Append(acc, w[i]))

\* A Metrics with every Data pointer a renamed to ren[a].
Renamed(md, ren) ==
  IF md.orig = NilRequest THEN md
  ELSE [md EXCEPT !.orig.ResourceMetrics =
         [i \in 1 .. Len(@) |->
           [InstrumentationLibraryMetrics |->
             [j \in 1 .. Len(@[i].InstrumentationLibraryMetrics) |->
               [Metrics |->
                 [k \in 1 .. Len(@[i].InstrumentationLibraryMetrics[j].Metrics) |->
                   [Data |-> ren[@[i].InstrumentationLibraryMetrics[j].Metrics[k].Data]]]]]]]]

\* Garbage collection and renumbering: the heap and the two Metrics in
\* normal form.
Normal(h, a, b) ==
  LET live == Distinct(Walk(a) \o Walk(b), 1, <<>>)
      ren == [x \in 0 .. HeapCells |->
               IF x = Nil THEN Nil
               ELSE IF \E n \in 1 .. Len(live) : live[n] = x
                    THEN CHOOSE n \in 1 .. Len(live) : live[n] = x
                    ELSE Nil]
  IN  [h |-> [x \in Addrs |-> IF x <= Len(live) THEN h[live[x]] ELSE FreeCell],
       m |-> Renamed(a, ren),
       m2 |-> Renamed(b, ren)]

\* A Metrics as a value, every Data pointer replaced by what it points to:
\* two Metrics are structurally equal when their values are equal.
Value(h, md) ==
  IF md.orig = NilRequest THEN md
  ELSE [md EXCEPT !.orig.ResourceMetrics =
         [i \in 1 .. Len(@) |->
           [InstrumentationLibraryMetrics |->
             [j \in 1 .. Len(@[i].InstrumentationLibraryMetrics) |->
               [Metrics |->
                 [k \in 1 .. Len(@[i].InstrumentationLibraryMetrics[j].Metrics) |->
                   LET d == @[i].InstrumentationLibraryMetrics[j].Metrics[k].Data
                   IN  IF d = Nil THEN [t |-> "nil"] ELSE h[d]]]]]]]

\* ------------------------------------------------------ Metric tagged union
\* Metric.DataType: a type switch on ms.orig.Data.
DataType(h, ms) ==
  LET d == ms.Data IN
  IF d = Nil THEN MetricDataTypeNone
  ELSE CASE h[d].t = "Metric_IntGauge" -> MetricDataTypeIntGauge
         [] h[d].t = "Metric_DoubleGauge" -> MetricDataTypeDoubleGauge
         [] h[d].t = "Metric_IntSum" -> MetricDataTypeIntSum
         [] h[d].t = "Metric_DoubleSum" -> MetricDataTypeDoubleSum
         [] h[d].t = "Metric_IntHistogram" -> MetricDataTypeIntHistogram
         [] h[d].t = "Metric_DoubleHistogram" -> MetricDataTypeHistogram
         [] h[d].t = "Metric_DoubleSummary" -> MetricDataTypeSummary
         [] OTHER -> MetricDataTypeNone

\* ms.orig.Data = &otlpmetrics.Metric_X{X: &otlpmetrics.X{}}
SetData(h, ms, t) ==
  LET r == Alloc(h, [t |-> t, points |-> <<>>])
  IN  [h |-> r.h, ms |-> [ms EXCEPT !.Data = r.a]]

\* SetDataType with the Histogram case allocating the IntHistogram wrapper.
SetDataTypeWrongWrapper(h, ms, ty) ==
  CASE ty = MetricDataTypeIntGauge -> SetData(h, ms, "Metric_IntGauge")
    [] ty = MetricDataTypeDoubleGauge -> SetData(h, ms, "Metric_DoubleGauge")
    [] ty = MetricDataTypeIntSum -> SetData(h, ms, "Metric_IntSum")
    [] ty = MetricDataTypeDoubleSum -> SetData(h, ms, "Metric_DoubleSum")
    [] ty = MetricDataTypeIntHistogram -> SetData(h, ms, "Metric_IntHistogram")
    [] ty = MetricDataTypeHistogram -> SetData(h, ms, "Metric_IntHistogram")
    [] ty = MetricDataTypeSummary -> SetData(h, ms, "Metric_DoubleSummary")
    [] OTHER -> [h |-> h, ms |-> ms]

\* Metric.SetDataType: a switch on ty with seven cases and no default.
SetDataType(h, ms, ty) ==
  CASE ty = MetricDataTypeIntGauge -> SetData(h, ms, "Metric_IntGauge")
    [] ty = MetricDataTypeDoubleGauge -> SetData(h, ms, "Metric_DoubleGauge")
    [] ty = MetricDataTypeIntSum -> SetData(h, ms, "Metric_IntSum")
    [] ty = MetricDataTypeDoubleSum -> SetData(h, ms, "Metric_DoubleSum")
    [] ty = MetricDataTypeIntHistogram -> SetData(h, ms, "Metric_IntHistogram")
    [] ty = MetricDataTypeHistogram -> SetData(h, ms, "Metric_DoubleHistogram")
    [] ty = MetricDataTypeSummary -> SetData(h, ms, "Metric_DoubleSummary")
    [] OTHER -> [h |-> h, ms |-> ms]

\* ms.orig.Data.(*otlpmetrics.Metric_X): the type assertion panics unless
\* Data holds exactly that wrapper (a nil interface panics too).
AssertType(h, ms, t) ==
  IF ms.Data # Nil /\ h[ms.Data].t = t THEN ms.Data ELSE Panic

IntGauge(h, ms) == AssertType(h, ms, "Metric_IntGauge")

DoubleGauge(h, ms) == AssertType(h, ms, "Metric_DoubleGauge")

IntSum(h, ms) == AssertType(h, ms, "Metric_IntSum")

DoubleSum(h, ms) == AssertType(h, ms, "Metric_DoubleSum")

IntHistogram(h, ms) == AssertType(h, ms, "Metric_IntHistogram")

Histogram(h, ms) == AssertType(h, ms, "Metric_DoubleHistogram")

Summary(h, ms) == AssertType(h, ms, "Metric_DoubleSummary")

\* The shape accessor that is documented for each data type.
Accessor(h, ms, ty) ==
  CASE ty = MetricDataTypeIntGauge -> IntGauge(h, ms)
    [] ty = MetricDataTypeDoubleGauge -> DoubleGauge(h, ms)
    [] ty = MetricDataTypeIntSum -> IntSum(h, ms)
    [] ty = MetricDataTypeDoubleSum -> DoubleSum(h, ms)
    [] ty = MetricDataTypeIntHistogram -> IntHistogram(h, ms)
    [] ty = MetricDataTypeHistogram -> Histogram(h, ms)
    [] ty = MetricDataTypeSummary -> Summary(h, ms)

\* One case of copyData: data := &Metric_X{X: &X{}}; the points of the
\* source are copied into it; dest.Data = data.
CopyDataAs(h, src, dest, t) ==
  LET r == Alloc(h, [t |-> t, points |-> h[src.Data].points])
  IN  [h |-> r.h, dest |-> [dest EXCEPT !.Data = r.a]]

\* copyData storing the wrapper of the source itself in dest.
copyDataShallow(h, src, dest) ==
  IF src.Data = Nil THEN [h |-> h, dest |-> dest]
  ELSE [h |-> h, dest |-> [dest EXCEPT !.Data = src.Data]]

\* copyData: a type switch on src.Data with seven cases and no default, so
\* nothing is done for a nil src.Data.
copyData(h, src, dest) ==
  LET d == src.Data IN
  IF d = Nil THEN [h |-> h, dest |-> dest]
  ELSE CASE h[d].t = "Metric_IntGauge" -> CopyDataAs(h, src, dest, "Metric_IntGauge")
         [] h[d].t = "Metric_DoubleGauge" -> CopyDataAs(h, src, dest, "Metric_DoubleGauge")
         [] h[d].t = "Metric_IntSum" -> CopyDataAs(h, src, dest, "Metric_IntSum")
         [] h[d].t = "Metric_DoubleSum" -> CopyDataAs(h, src, dest, "Metric_DoubleSum")
         [] h[d].t = "Metric_IntHistogram" -> CopyDataAs(h, src, dest, "Metric_IntHistogram")
         [] h[d].t = "Metric_DoubleHistogram" -> CopyDataAs(h, src, dest, "Metric_DoubleHistogram")
         [] h[d].t = "Metric_DoubleSummary" -> CopyDataAs(h, src, dest, "Metric_DoubleSummary")
         [] OTHER -> [h |-> h, dest |-> dest]

\* DataPoints().Append(...) through the accessor of the active variant.
DataPointsAppend(h, ms, v) ==
  [h EXCEPT ![Accessor(h, ms, DataType(h, ms))].points = Append(@, v)]

\* ------------------------------------------------------------------ Clone
\* MetricSlice.CopyTo into an empty destination: one new Metric for each
\* source metric, filled by Metric.CopyTo, which ends in copyData.
RECURSIVE MetricSliceCopyTo(_, _, _, _)
MetricSliceCopyTo(h, src, k, dest) ==
  IF k > Len(src) THEN [h |-> h, dest |-> dest]
  ELSE LET r == copyData(h, src[k], NewMetric)
       IN  MetricSliceCopyTo(r.h, src, k + 1, Append(dest, r.dest))

RECURSIVE InstrumentationLibraryMetricsSliceCopyTo(_, _, _, _)
InstrumentationLibraryMetricsSliceCopyTo(h, src, j, dest) ==
  IF j > Len(src) THEN [h |-> h, dest |-> dest]
  ELSE LET r == MetricSliceCopyTo(h, src[j].Metrics, 1, <<>>)
       IN  InstrumentationLibraryMetricsSliceCopyTo(
             r.h, src, j + 1, Append(dest, [Metrics |-> r.dest]))

RECURSIVE ResourceMetricsSliceCopyTo(_, _, _, _)
ResourceMetricsSliceCopyTo(h, src, i, dest) ==
  IF i > Len(src) THEN [h |-> h, dest |-> dest]
  ELSE LET r == InstrumentationLibraryMetricsSliceCopyTo(
                  h, src[i].InstrumentationLibraryMetrics, 1, <<>>)
       IN  ResourceMetricsSliceCopyTo(
             r.h, src, i + 1, Append(dest, [InstrumentationLibraryMetrics |-> r.dest]))

\* Metrics.Clone: cloneMd := NewMetrics();
\* md.ResourceMetrics().CopyTo(cloneMd.ResourceMetrics()); return cloneMd
Clone(h, md) ==
  LET cloneMd == NewMetrics
      r == ResourceMetricsSliceCopyTo(h, ResourceMetrics(md), 1, ResourceMetrics(cloneMd))
  IN  [h |-> r.h, md |-> [cloneMd EXCEPT !.orig.ResourceMetrics = r.dest]]

\* ------------------------------------------------------ aggregate traversal
\* Metrics.MetricCount: the two nested loops, metricCount += ilm.Metrics().Len()
RECURSIVE CountIlms(_, _, _)
CountIlms(ilms, j, metricCount) ==
  IF j > Len(ilms) THEN metricCount
  ELSE CountIlms(ilms, j + 1, metricCount + Len(ilms[j].Metrics))

RECURSIVE CountRms(_, _, _)
CountRms(rms, i, metricCount) ==
  IF i > Len(rms) THEN metricCount
  ELSE CountRms(rms, i + 1, CountIlms(rms[i].InstrumentationLibraryMetrics, 1, metricCount))

MetricCount(md) ==
  IF md.orig = NilRequest THEN Panic ELSE CountRms(ResourceMetrics(md), 1, 0)

\* The switch without its Summary case.
DataPointsLenNoSummary(h, ms) ==
  LET ty == DataType(h, ms) IN
  CASE ty = MetricDataTypeIntGauge -> Len(h[IntGauge(h, ms)].points)
    [] ty = MetricDataTypeDoubleGauge -> Len(h[DoubleGauge(h, ms)].points)
    [] ty = MetricDataTypeIntSum -> Len(h[IntSum(h, ms)].points)
    [] ty = MetricDataTypeDoubleSum -> Len(h[DoubleSum(h, ms)].points)
    [] ty = MetricDataTypeIntHistogram -> Len(h[IntHistogram(h, ms)].points)
    [] ty = MetricDataTypeHistogram -> Len(h[Histogram(h, ms)].points)
    [] OTHER -> 0

\* The switch of MetricAndDataPointCount on m.DataType(): the length of the
\* points behind the accessor of that type; no case, so nothing, for None.
DataPointsLen(h, ms) ==
  LET ty == DataType(h, ms) IN
  CASE ty = MetricDataTypeIntGauge -> Len(h[IntGauge(h, ms)].points)
    [] ty = MetricDataTypeDoubleGauge -> Len(h[DoubleGauge(h, ms)].points)
    [] ty = MetricDataTypeIntSum -> Len(h[IntSum(h, ms)].points)
    [] ty = MetricDataTypeDoubleSum -> Len(h[DoubleSum(h, ms)].points)
    [] ty = MetricDataTypeIntHistogram -> Len(h[IntHistogram(h, ms)].points)
    [] ty = MetricDataTypeHistogram -> Len(h[Histogram(h, ms)].points)
    [] ty = MetricDataTypeSummary -> Len(h[Summary(h, ms)].points)
    [] OTHER -> 0

\* Metrics.MetricAndDataPointCount: the three nested loops; c is the pair
\* <<metricCount, dataPointCount>>.
RECURSIVE CountMs(_, _, _, _)
CountMs(h, ms, k, c) ==
  IF k > Len(ms) THEN c
  ELSE CountMs(h, ms, k + 1, <<c[1], c[2] + DataPointsLen(h, ms[k])>>)

RECURSIVE CountIlmsPoints(_, _, _, _)
CountIlmsPoints(h, ilms, j, c) ==
  IF j > Len(ilms) THEN c
  ELSE LET ms == ilms[j].Metrics
       IN  CountIlmsPoints(h, ilms, j + 1, CountMs(h, ms, 1, <<c[1] + Len(ms), c[2]>>))

RECURSIVE CountRmsPoints(_, _, _, _)
CountRmsPoints(h, rms, i, c) ==
  IF i > Len(rms) THEN c
  ELSE CountRmsPoints(h, rms, i + 1,
                      CountIlmsPoints(h, rms[i].InstrumentationLibraryMetrics, 1, c))

MetricAndDataPointCount(h, md) ==
  IF md.orig = NilRequest THEN Panic
  ELSE CountRmsPoints(h, ResourceMetrics(md), 1, <<0, 0>>)

\* ------------------------------------------------------- OTLP wire format
\* The field number of each member of the Metric oneof, and of the repeated
\* fields of the tree, in the ExportMetricsServiceRequest message.
FieldOf(t) ==
  CASE t = "Metric_IntGauge" -> 4
    [] t = "Metric_DoubleGauge" -> 5
    [] t = "Metric_IntSum" -> 6
    [] t = "Metric_DoubleSum" -> 7
    [] t = "Metric_IntHistogram" -> 8
    [] t = "Metric_DoubleHistogram" -> 9
    [] t = "Metric_DoubleSummary" -> 11

OneofOf(f) == CHOOSE t \in OneofTypes : FieldOf(t) = f

OneofFields == { FieldOf(t) : t \in OneofTypes }

ResourceMetricsField == 1
InstrumentationLibraryMetricsField == 2
MetricsField == 2
DataPointsField == 1

\* One length-delimited field: its number, the length of its payload, the
\* payload.
Field(f, payload) == <<f, Len(payload)>> \o payload

\* Marshal of each message: its fields one after the other.
RECURSIVE MarshalPoints(_, _)
MarshalPoints(points, i) ==
  IF i > Len(points) THEN <<>>
  ELSE Field(DataPointsField, <<points[i]>>) \o MarshalPoints(points, i + 1)

MarshalMetric(h, ms) ==
  IF ms.Data = Nil THEN <<>>
  ELSE Field(FieldOf(h[ms.Data].t), MarshalPoints(h[ms.Data].points, 1))

RECURSIVE MarshalMetrics(_, _, _)
MarshalMetrics(h, ms, k) ==
  IF k > Len(ms) THEN <<>>
  ELSE Field(MetricsField, MarshalMetric(h, ms[k])) \o MarshalMetrics(h, ms, k + 1)

RECURSIVE MarshalIlms(_, _, _)
MarshalIlms(h, ilms, j) ==
  IF j > Len(ilms) THEN <<>>
  ELSE Field(InstrumentationLibraryMetricsField, MarshalMetrics(h, ilms[j].Metrics, 1))
         \o MarshalIlms(h, ilms, j + 1)

RECURSIVE MarshalRms(_, _, _)
MarshalRms(h, rms, i) ==
  IF i > Len(rms) THEN <<>>
  ELSE Field(ResourceMetricsField,
             MarshalIlms(h, rms[i].InstrumentationLibraryMetrics, 1))
         \o MarshalRms(h, rms, i + 1)

\* (*ExportMetricsServiceRequest).Marshal
RequestMarshal(h, req) == MarshalRms(h, req.ResourceMetrics, 1)

NilError == [nil |-> TRUE]

NilBytes == [nil |-> TRUE]

ErrUnexpectedEOF == [msg |-> "unexpected EOF"]

ErrIllegalTag == [msg |-> "proto: illegal tag 0"]

\* The fields of a message: [err, fields]; a field number 0 and a payload
\* that runs past the end of the bytes are errors.
RECURSIVE Fields(_)
Fields(b) ==
  IF b = <<>> THEN [err |-> NilError, fields |-> <<>>]
  ELSE IF b[1] = 0 THEN [err |-> ErrIllegalTag, fields |-> <<>>]
  ELSE IF Len(b) < 2 \/ Len(b) < 2 + b[2] THEN [err |-> ErrUnexpectedEOF, fields |-> <<>>]
  ELSE LET rest == Fields(SubSeq(b, 3 + b[2], Len(b)))
       IN  [err |-> rest.err,
            fields |-> <<[f |-> b[1], v |-> SubSeq(b, 3, 2 + b[2])]>> \o rest.fields]

\* Unmarshal of each message: [err, val]; fields of other numbers are
\* skipped; the first error ends it.  A metric is unmarshalled to the value
\* of its oneof, [t |-> "nil"] when no member is set; the last member wins.
RECURSIVE UnmarshalPoints(_, _)
UnmarshalPoints(fs, i) ==
  IF i > Len(fs) THEN [err |-> NilError, val |-> <<>>]
  ELSE IF fs[i].f # DataPointsField THEN UnmarshalPoints(fs, i + 1)
  ELSE IF Len(fs[i].v) # 1 THEN [err |-> ErrUnexpectedEOF, val |-> <<>>]
  ELSE LET rest == UnmarshalPoints(fs, i + 1)
       IN  [err |-> rest.err, val |-> <<fs[i].v[1]>> \o rest.val]

RECURSIVE UnmarshalOneof(_, _, _)
UnmarshalOneof(fs, i, cur) ==
  IF i > Len(fs) THEN [err |-> NilError, val |-> cur]
  ELSE IF fs[i].f \notin OneofFields THEN UnmarshalOneof(fs, i + 1, cur)
  ELSE LET inner == Fields(fs[i].v)
           pts == UnmarshalPoints(inner.fields, 1)
       IN  IF inner.err # NilError THEN [err |-> inner.err, val |-> cur]
           ELSE IF pts.err # NilError THEN [err |-> pts.err, val |-> cur]
           ELSE UnmarshalOneof(fs, i + 1, [t |-> OneofOf(fs[i].f), points |-> pts.val])

UnmarshalMetric(b) ==
  LET fs == Fields(b) IN
  IF fs.err # NilError THEN [err |-> fs.err, val |-> [t |-> "nil"]]
  ELSE UnmarshalOneof(fs.fields, 1, [t |-> "nil"])

RECURSIVE UnmarshalRepeated(_, _, _)
\* The repeated field of number f of a message at a level of the tree
\* (1: request, 2: resource, 3: scope).
UnmarshalMessage(b, level) ==
  LET fs == Fields(b) IN
  IF fs.err # NilError THEN [err |-> fs.err, val |-> <<>>]
  ELSE UnmarshalRepeated(fs.fields, 1, level)

UnmarshalRepeated(fs, i, level) ==
  LET f == CASE level = 1 -> ResourceMetricsField
             [] level = 2 -> InstrumentationLibraryMetricsField
             [] level = 3 -> MetricsField
  IN  IF i > Len(fs) THEN [err |-> NilError, val |-> <<>>]
      ELSE IF fs[i].f # f THEN UnmarshalRepeated(fs, i + 1, level)
      ELSE LET e == IF level = 3 THEN UnmarshalMetric(fs[i].v)
                    ELSE UnmarshalMessage(fs[i].v, level + 1)
               rest == UnmarshalRepeated(fs, i + 1, level)
           IN  IF e.err # NilError THEN [err |-> e.err, val |-> <<>>]
               ELSE [err |-> rest.err, val |-> <<e.val>> \o rest.val]

\* The unmarshalled message in the heap: storage for every oneof that is set.
RECURSIVE NewMetricsOf(_, _, _, _)
NewMetricsOf(h, vals, k, out) ==
  IF k > Len(vals) THEN [h |-> h, out |-> out]
  ELSE IF vals[k].t = "nil" THEN NewMetricsOf(h, vals, k + 1, Append(out, NewMetric))
  ELSE LET r == Alloc(h, vals[k])
       IN  NewMetricsOf(r.h, vals, k + 1, Append(out, [Data |-> r.a]))

RECURSIVE NewIlmsOf(_, _, _, _)
NewIlmsOf(h, vals, j, out) ==
  IF j > Len(vals) THEN [h |-> h, out |-> out]
  ELSE LET r == NewMetricsOf(h, vals[j], 1, <<>>)
       IN  NewIlmsOf(r.h, vals, j + 1, Append(out, [Metrics |-> r.out]))

RECURSIVE NewRmsOf(_, _, _, _)
NewRmsOf(h, vals, i, out) ==
  IF i > Len(vals) THEN [h |-> h, out |-> out]
  ELSE LET r == NewIlmsOf(h, vals[i], 1, <<>>)
       IN  NewRmsOf(r.h, vals, i + 1, Append(out, [InstrumentationLibraryMetrics |-> r.out]))

\* (*ExportMetricsServiceRequest).Unmarshal: [h, err, req]
RequestUnmarshal(h, data) ==
  LET u == UnmarshalMessage(data, 1)
      r == NewRmsOf(h, u.val, 1, <<>>)
  IN  IF u.err # NilError
      THEN [h |-> h, err |-> u.err, req |-> [ResourceMetrics |-> <<>>]]
      ELSE [h |-> r.h, err |-> NilError, req |-> [ResourceMetrics |-> r.out]]

\* Metrics.ToOtlpProtoBytes: return md.orig.Marshal()
ToOtlpProtoBytes(h, md) ==
  [buf |-> [bytes |-> RequestMarshal(h, md.orig)], err |-> NilError]

\* MetricsFromOtlpProtoBytes with the test of the error inverted.
MetricsFromOtlpProtoBytesInverted(h, data) ==
  LET r == RequestUnmarshal(h, data)
  IN  IF r.err = NilError THEN [h |-> h, md |-> ZeroMetrics, err |-> r.err]
      ELSE [h |-> r.h, md |-> [orig |-> r.req], err |-> NilError]

\* MetricsFromOtlpProtoBytes: req := ExportMetricsServiceRequest{};
\* if err := req.Unmarshal(data); err != nil { return Metrics{}, err };
\* return Metrics{orig: &req}, nil
MetricsFromOtlpProtoBytes(h, data) ==
  LET r == RequestUnmarshal(h, data)
  IN  IF r.err # NilError THEN [h |-> h, md |-> ZeroMetrics, err |-> r.err]
      ELSE [h |-> r.h, md |-> [orig |-> r.req], err |-> NilError]

\* ------------------------------------------------- Marshaler / Unmarshaler
\* fmt.Errorf(prefix + ": %w", err): the message and the error it wraps.
Errorf(prefix, err) == [msg |-> prefix, wraps |-> err]

Call(fn, arg) == [fn |-> fn, arg |-> arg]

\* Marshal with the encoder called before the translation error is looked at.
MarshalEncodingAnyway(td, translated, encoded) ==
  IF translated.err # NilError
  THEN [buf |-> NilBytes,
        err |-> Errorf("converting pdata to model failed", translated.err),
        calls |-> <<Call("FromMetrics", td), Call("EncodeMetrics", translated.model)>>]
  ELSE IF encoded.err # NilError
  THEN [buf |-> NilBytes,
        err |-> Errorf("marshal failed", encoded.err),
        calls |-> <<Call("FromMetrics", td), Call("EncodeMetrics", translated.model)>>]
  ELSE [buf |-> encoded.buf, err |-> NilError,
        calls |-> <<Call("FromMetrics", td), Call("EncodeMetrics", translated.model)>>]

\* metricsMarshaler.Marshal.  translated is what t.translator.FromMetrics
\* returns for td, encoded what t.encoder.EncodeMetrics returns for the
\* model; calls is the sequence of the calls made on the two.
Marshal(td, translated, encoded) ==
  IF translated.err # NilError
  THEN [buf |-> NilBytes,
        err |-> Errorf("converting pdata to model failed", translated.err),
        calls |-> <<Call("FromMetrics", td)>>]
  ELSE IF encoded.err # NilError
  THEN [buf |-> NilBytes,
        err |-> Errorf("marshal failed", encoded.err),
        calls |-> <<Call("FromMetrics", td), Call("EncodeMetrics", translated.model)>>]
  ELSE [buf |-> encoded.buf, err |-> NilError,
        calls |-> <<Call("FromMetrics", td), Call("EncodeMetrics", translated.model)>>]

\* Unmarshal returning what the failed translator returned.
UnmarshalReturningPartial(data, decoded, translated) ==
  IF decoded.err # NilError
  THEN [td |-> ZeroMetrics, err |-> Errorf("unmarshal failed", decoded.err),
        calls |-> <<Call("DecodeMetrics", data)>>]
  ELSE IF translated.err # NilError
  THEN [td |-> translated.td,
        err |-> Errorf("converting model to pdata failed", translated.err),
        calls |-> <<Call("DecodeMetrics", data), Call("ToMetrics", decoded.model)>>]
  ELSE [td |-> translated.td, err |-> NilError,
        calls |-> <<Call("DecodeMetrics", data), Call("ToMetrics", decoded.model)>>]

\* Unmarshal with the message of the first stage on both errors.
UnmarshalOneMessage(data, decoded, translated) ==
  IF decoded.err # NilError
  THEN [td |-> ZeroMetrics, err |-> Errorf("unmarshal failed", decoded.err),
        calls |-> <<Call("DecodeMetrics", data)>>]
  ELSE IF translated.err # NilError
  THEN [td |-> ZeroMetrics, err |-> Errorf("unmarshal failed", translated.err),
        calls |-> <<Call("DecodeMetrics", data), Call("ToMetrics", decoded.model)>>]
  ELSE [td |-> translated.td, err |-> NilError,
        calls |-> <<Call("DecodeMetrics", data), Call("ToMetrics", decoded.model)>>]

\* metricsUnmarshaler.Unmarshal.  decoded is what t.decoder.DecodeMetrics
\* returns for buf, translated what t.translator.ToMetrics returns for the
\* model.
Unmarshal(data, decoded, translated) ==
  IF decoded.err # NilError
  THEN [td |-> ZeroMetrics, err |-> Errorf("unmarshal failed", decoded.err),
        calls |-> <<Call("DecodeMetrics", data)>>]
  ELSE IF translated.err # NilError
  THEN [td |-> ZeroMetrics,
        err |-> Errorf("converting model to pdata failed", translated.err),
        calls |-> <<Call("DecodeMetrics", data), Call("ToMetrics", decoded.model)>>]
  ELSE [td |-> translated.td, err |-> NilError,
        calls |-> <<Call("DecodeMetrics", data), Call("ToMetrics", decoded.model)>>]

\* ------------------------------------------------- actions on the tree
HandleNames == {"m", "m2"}

Get(n) == IF n = "m" THEN m ELSE m2

\* The handles that hold a tree.
Handles == { n \in HandleNames : Get(n).orig # NilRequest }

Put(n, md) == IF n = "m" THEN m' = md /\ m2' = m2 ELSE m2' = md /\ m' = m

\* The step leaves heap h and stores md in handle n.
Store(h, n, md) ==
  LET s == IF n = "m" THEN Normal(h, md, m2) ELSE Normal(h, m, md)
  IN  heap' = s.h /\ m' = s.m /\ m2' = s.m2

NoCodec == UNCHANGED <<buf, calls>>

\* md.ResourceMetrics().Append(...): a new empty resource at the end.
ResourceMetricsAppend(cap) ==
  \E n \in Handles :
    /\ Nodes(Get(n)) < cap
    /\ Put(n, [Get(n) EXCEPT !.orig.ResourceMetrics = Append(@, NewResourceMetrics)])
    /\ ret' = [op |-> "Append", md |-> n]
    /\ UNCHANGED heap /\ NoCodec

\* rm.InstrumentationLibraryMetrics().Append(...): a new empty scope.
InstrumentationLibraryMetricsAppend(cap) ==
  \E n \in Handles :
    \E p \in RmPaths(Get(n)) :
      /\ Nodes(Get(n)) < cap
      /\ Put(n, [Get(n) EXCEPT
                   !.orig.ResourceMetrics[p[1]].InstrumentationLibraryMetrics =
                     Append(@, NewInstrumentationLibraryMetrics)])
      /\ ret' = [op |-> "Append", md |-> n]
      /\ UNCHANGED heap /\ NoCodec

\* ilm.Metrics().Append(...): a new Metric, its Data nil.
MetricsAppend(cap) ==
  \E n \in Handles :
    \E p \in IlmPaths(Get(n)) :
      /\ Nodes(Get(n)) < cap
      /\ Put(n, [Get(n) EXCEPT
                   !.orig.ResourceMetrics[p[1]].InstrumentationLibraryMetrics[p[2]].Metrics =
                     Append(@, NewMetric)])
      /\ ret' = [op |-> "Append", md |-> n]
      /\ UNCHANGED heap /\ NoCodec

\* One more point in the data points of the active variant of a metric.
PointAppend(values, max) ==
  \E n \in Handles, v \in values :
    \E p \in MetricPaths(Get(n)) :
      /\ MetricAt(Get(n), p).Data # Nil
      /\ Len(heap[MetricAt(Get(n), p).Data].points) < max
      /\ heap' = DataPointsAppend(heap, MetricAt(Get(n), p), v)
      /\ ret' = [op |-> "Append", md |-> n]
      /\ UNCHANGED <<m, m2>> /\ NoCodec

\* ms.SetDataType(ty) on a metric of the program; ret keeps what the call
\* was given.
SetDataTypeCall(types) ==
  \E n \in Handles, ty \in types :
    \E p \in MetricPaths(Get(n)) :
      LET r == SetDataType(heap, MetricAt(Get(n), p), ty)
      IN  /\ Store(r.h, n, WithMetricAt(Get(n), p, r.ms))
          /\ ret' = [op |-> "SetDataType", md |-> n, at |-> p, ty |-> ty]
          /\ NoCodec

\* copyData(src, dest) on two metrics of the program (Metric.CopyTo).
CopyDataCall ==
  \E n \in Handles, sn \in Handles :
    \E p \in MetricPaths(Get(n)), sp \in MetricPaths(Get(sn)) :
      LET r == copyData(heap, MetricAt(Get(sn), sp), MetricAt(Get(n), p))
      IN  /\ <<n, p>> # <<sn, sp>>
          /\ Store(r.h, n, WithMetricAt(Get(n), p, r.dest))
          /\ ret' = [op |-> "copyData", md |-> n, at |-> p, from |-> <<sn, sp>>]
          /\ NoCodec

\* m2 := m.Clone()
CloneCall ==
  /\ m2 = ZeroMetrics
  /\ LET r == Clone(heap, m) IN Store(r.h, "m2", r.md)
  /\ ret' = [op |-> "Clone", md |-> "m2"]
  /\ NoCodec

\* A MetricCount that resizes the resources it walks.
MetricCountCallResizing ==
  \E n \in Handles :
    /\ ret' = [op |-> "MetricCount", md |-> n, val |-> MetricCount(Get(n))]
    /\ Put(n, [Get(n) EXCEPT !.orig.ResourceMetrics = Append(@, NewResourceMetrics)])
    /\ UNCHANGED heap /\ NoCodec

MetricCountCall ==
  \E n \in Handles :
    /\ ret' = [op |-> "MetricCount", md |-> n, val |-> MetricCount(Get(n))]
    /\ UNCHANGED <<heap, m, m2>> /\ NoCodec

MetricAndDataPointCountCall ==
  \E n \in Handles :
    /\ ret' = [op |-> "MetricAndDataPointCount", md |-> n,
               val |-> MetricAndDataPointCount(heap, Get(n))]
    /\ UNCHANGED <<heap, m, m2>> /\ NoCodec

\* The Metrics of a shape, as Append calls on NewMetrics() build it.
TreeOf(shape) ==
  [NewMetrics EXCEPT !.orig.ResourceMetrics =
    [i \in 1 .. Len(shape) |->
      [InstrumentationLibraryMetrics |->
        [j \in 1 .. Len(shape[i]) |->
          [Metrics |-> [k \in 1 .. shape[i][j] |-> NewMetric]]]]]]

\* m is a Metrics of one of the shapes, no metric typed yet; m2 is the zero
\* value.
Init ==
  /\ heap = EmptyHeap
  /\ m \in { TreeOf(shape) : shape \in InitShapes }
  /\ m2 = ZeroMetrics
  /\ buf = NilBytes
  /\ calls = <<>>
  /\ ret = [op |-> "NewMetrics", md |-> "m"]

\* One Metrics: retyped with every data type, filled, copied into, counted.
Next ==
  \/ PointAppend(PointValues, MaxPoints)
  \/ SetDataTypeCall(MetricDataTypes)
  \/ CopyDataCall
  \/ MetricCountCall
  \/ MetricAndDataPointCountCall

Spec == Init /\ [][Next]_vars

\* What the codec of a caller may return: errors, protocol models, bytes
\* and Metrics; a failed stage may return a partial result with its error.
Causes == { [msg |-> "EOF"], [msg |-> "invalid"], [msg |-> "unsupported"] }

Models == { "nil", "modelA", "modelB" }

Buffers == { NilBytes, [bytes |-> <<>>], [bytes |-> <<1, 0>>] }

Translations == { ZeroMetrics, NewMetrics, TreeOf(<< <<1>> >>) }

\* Bytes from the wire: messages and what is no message.
WireInputs ==
  { <<>>, <<1, 0>>, <<1, 2, 2, 0>>, <<1, 6, 2, 4, 2, 2, 11, 0>>, <<3, 1, 0, 1, 0>>,
    <<1>>, <<1, 5, 2>>, <<0, 0>>, <<1, 6, 2, 4, 2, 2, 4, 3>>,
    <<1, 7, 2, 5, 2, 3, 4, 1, 7>>, <<1, 9, 2, 7, 2, 5, 4, 3, 1, 2, 7>> }

\* buf, err := marshaler.Marshal(td)
MarshalCall ==
  \E td \in Translations, model \in Models, b \in Buffers,
     terr \in Causes \cup {NilError}, eerr \in Causes \cup {NilError} :
    LET translated == [model |-> model, err |-> terr]
        encoded == [buf |-> b, err |-> eerr]
        r == Marshal(td, translated, encoded)
    IN  /\ buf' = r.buf
        /\ calls' = r.calls
        /\ ret' = [op |-> "Marshal", md |-> "none", in |-> td, err |-> r.err,
                   translated |-> translated, encoded |-> encoded]
        /\ UNCHANGED <<heap, m, m2>>

\* td, err := unmarshaler.Unmarshal(data)
UnmarshalCall ==
  \E data \in Buffers \ {NilBytes}, model \in Models, td \in Translations,
     derr \in Causes \cup {NilError}, terr \in Causes \cup {NilError} :
    LET decoded == [model |-> model, err |-> derr]
        translated == [td |-> td, err |-> terr]
        r == Unmarshal(data, decoded, translated)
    IN  /\ calls' = r.calls
        /\ ret' = [op |-> "Unmarshal", md |-> "none", in |-> data, err |-> r.err,
                   td |-> r.td, decoded |-> decoded, translated |-> translated]
        /\ UNCHANGED <<heap, m, m2, buf>>

\* got, err := MetricsFromOtlpProtoBytes(data), on what m.ToOtlpProtoBytes()
\* returns or on bytes from the wire.  The caller looks at got (val is its
\* value) and drops it.
MetricsFromOtlpProtoBytesCall ==
  \E data \in {ToOtlpProtoBytes(heap, m).buf.bytes} \cup WireInputs :
    LET r == MetricsFromOtlpProtoBytes(heap, data)
    IN  /\ ret' = [op |-> "MetricsFromOtlpProtoBytes", md |-> "none", in |-> data,
                   err |-> r.err, val |-> Value(r.h, r.md)]
        /\ UNCHANGED <<heap, m, m2>> /\ NoCodec

\* m := NewMetrics(); m2 is still the zero value.
InitEmpty ==
  /\ heap = EmptyHeap
  /\ m = NewMetrics
  /\ m2 = ZeroMetrics
  /\ buf = NilBytes
  /\ calls = <<>>
  /\ ret = [op |-> "NewMetrics", md |-> "m"]

\* A Metrics is built and cloned; the Metrics and its clone are mutated.
NextClone ==
  \/ ResourceMetricsAppend(PairNodes)
  \/ InstrumentationLibraryMetricsAppend(PairNodes)
  \/ MetricsAppend(PairNodes)
  \/ PointAppend(PairPointValues, PairPoints)
  \/ SetDataTypeCall(PairDataTypes)
  \/ CopyDataCall
  \/ CloneCall

SpecClone == InitEmpty /\ [][NextClone]_vars

\* A Metrics is built and retyped, serialized and parsed again.
NextWire ==
  \/ ResourceMetricsAppend(PairNodes)
  \/ InstrumentationLibraryMetricsAppend(PairNodes)
  \/ MetricsAppend(PairNodes)
  \/ PointAppend(PointValues, PairPoints)
  \/ SetDataTypeCall(MetricDataTypes)
  \/ MetricsFromOtlpProtoBytesCall

SpecWire == InitEmpty /\ [][NextWire]_vars

\* The generic pipeline with the codec of a caller, and the OTLP entry point.
NextCodec ==
  \/ MarshalCall
  \/ UnmarshalCall
  \/ MetricsFromOtlpProtoBytesCall

SpecCodec == InitEmpty /\ [][NextCodec]_vars

\* ---------------------------------------------------------------- claims
\* The metric the last SetDataType or copyData call was made on.
Target == MetricAt(Get(ret.md), ret.at)

\* The shape accessors that do not panic on a metric.
Succeeding(h, ms) == { k \in Shapes : Accessor(h, ms, k) # Panic }

\* C1 as stated: after SetDataType(k), for every data type k, DataType()
\* returns k, exactly one shape accessor succeeds (the one of k) and every
\* other shape accessor panics.
VariantExclusivityEveryType ==
  ret.op = "SetDataType" =>
    /\ DataType(heap, Target) = ret.ty
    /\ Cardinality(Succeeding(heap, Target)) = 1
    /\ \A k \in Shapes : k # ret.ty => Accessor(heap, Target, k) = Panic

\* C1 amended: after SetDataType(k), for every data type k other than None,
\* DataType() returns k, the accessor of k succeeds and it is the only
\* shape accessor that does; every other one panics.
VariantExclusivity ==
  (ret.op = "SetDataType" /\ ret.ty # MetricDataTypeNone) =>
    /\ DataType(heap, Target) = ret.ty
    /\ Succeeding(heap, Target) = {ret.ty}
    /\ \A k \in Shapes : k # ret.ty => Accessor(heap, Target, k) = Panic

\* SetDataType(Histogram) was called on a metric whose neighbour holds
\* another variant: the Histogram accessor succeeds on it.
VariantExclusivityWitness ==
  /\ ret.op = "SetDataType"
  /\ ret.ty = MetricDataTypeHistogram
  /\ Histogram(heap, Target) # Panic
  /\ \E p \in MetricPaths(m) : DataType(heap, MetricAt(m, p)) = MetricDataTypeSummary

\* C2: after SetDataType(kind), for every kind, the metric holds fresh
\* empty storage of that kind: its data type is kind and no data point of
\* what it held before is left.
DestructiveRetype ==
  ret.op = "SetDataType" =>
    /\ DataType(heap, Target) = ret.ty
    /\ DataPointsLen(heap, Target) = 0
    /\ \A p \in MetricPaths(Get(ret.md)) :
         p # ret.at => MetricAt(Get(ret.md), p).Data # Target.Data \/ Target.Data = Nil

\* C10: after copyData(src, dst), for every shape of src, None included,
\* the data type of dst is that of src, its points equal those of src in
\* storage of its own, and nothing of what dst held before is left.
CopyDataOverwrites ==
  ret.op = "copyData" =>
    LET src == MetricAt(Get(ret.from[1]), ret.from[2]) IN
    /\ DataType(heap, Target) = DataType(heap, src)
    /\ src.Data # Nil =>
         /\ heap[Target.Data].points = heap[src.Data].points
         /\ Target.Data # src.Data

\* The number of points a metric holds, read off the heap.
PointsHeld(h, ms) == IF ms.Data = Nil THEN 0 ELSE Len(h[ms.Data].points)

RECURSIVE SumPoints(_, _, _)
SumPoints(h, md, paths) ==
  IF paths = {} THEN 0
  ELSE LET p == CHOOSE q \in paths : TRUE
       IN  PointsHeld(h, MetricAt(md, p)) + SumPoints(h, md, paths \ {p})

\* Every resource has S scopes and every scope M metrics, R resources in all.
Uniform(md, R, S, M) ==
  /\ Len(ResourceMetrics(md)) = R
  /\ \A p \in RmPaths(md) :
       Len(ResourceMetrics(md)[p[1]].InstrumentationLibraryMetrics) = S
  /\ \A p \in IlmPaths(md) :
       Len(ResourceMetrics(md)[p[1]].InstrumentationLibraryMetrics[p[2]].Metrics) = M

\* C6: MetricCount() is the number of Metric entries of the tree (R*S*M for
\* a uniform shape); MetricAndDataPointCount() is that number together with
\* the sum over the metrics of the points of the active variant, 0 for None.
CountCorrectness ==
  /\ ret.op = "MetricCount" =>
       /\ ret.val = Cardinality(MetricPaths(Get(ret.md)))
       /\ \A R \in 0 .. 3, S \in 0 .. 3, M \in 0 .. 3 :
            Uniform(Get(ret.md), R, S, M) => ret.val = R * S * M
  /\ ret.op = "MetricAndDataPointCount" =>
       ret.val = << Cardinality(MetricPaths(Get(ret.md))),
                    SumPoints(heap, Get(ret.md), MetricPaths(Get(ret.md))) >>

\* MetricAndDataPointCount() returned (2, MaxPoints) on a tree of three
\* resources in which a Summary holds all the points and the other metric
\* is None.
CountCorrectnessWitness ==
  /\ ret.op = "MetricAndDataPointCount"
  /\ Len(ResourceMetrics(m)) = 3
  /\ ret.val = <<2, MaxPoints>>
  /\ \E p \in MetricPaths(m) : DataType(heap, MetricAt(m, p)) = MetricDataTypeNone
  /\ \E p \in MetricPaths(m) : DataType(heap, MetricAt(m, p)) = MetricDataTypeSummary

CountOps == {"MetricCount", "MetricAndDataPointCount"}

\* C9: a MetricCount() or MetricAndDataPointCount() call leaves the whole
\* tree as it was, and a call repeated on the tree returns what the call
\* before it returned.
CountsArePureReads ==
  [][ /\ ret'.op \in CountOps => heap' = heap /\ m' = m /\ m2' = m2
      /\ (ret.op \in CountOps /\ ret'.op = ret.op /\ ret'.md = ret.md) =>
           ret'.val = ret.val ]_vars

\* A count was returned for a tree that holds points.
CountsArePureReadsWitness ==
  /\ ret.op = "MetricCount"
  /\ ret.val = 2
  /\ \E p \in MetricPaths(m) : PointsHeld(heap, MetricAt(m, p)) = MaxPoints

\* C7: the clone is structurally equal to the original; the two never share
\* storage; a step that mutates one of them leaves the other as it was.
CloneIndependence ==
  /\ [](ret.op = "Clone" => Value(heap, m2) = Value(heap, m))
  /\ [](DataPtrs(m) \cap DataPtrs(m2) = {})
  /\ [][ /\ ret'.md = "m2" => Value(heap', m') = Value(heap, m)
         /\ ret'.md = "m" => Value(heap', m2') = Value(heap, m2) ]_vars

\* The clone of a Metrics that holds a Summary with a point has been retyped
\* since, and the original still holds the Summary and the point.
CloneIndependenceWitness ==
  /\ m2 # ZeroMetrics
  /\ ret.op = "SetDataType" /\ ret.md = "m2" /\ ret.ty = MetricDataTypeIntGauge
  /\ \E p \in MetricPaths(m) :
       /\ DataType(heap, MetricAt(m, p)) = MetricDataTypeSummary
       /\ PointsHeld(heap, MetricAt(m, p)) = PairPoints
  /\ Value(heap, m) # Value(heap, m2)

\* The bytes m.ToOtlpProtoBytes() returns now.
BytesOfM == ToOtlpProtoBytes(heap, m).buf.bytes

Made(fn) == { i \in 1 .. Len(calls) : calls[i].fn = fn }

\* C3: when FromMetrics returns an error, Marshal returns an error wrapping
\* it and nil bytes and EncodeMetrics is not called; when it returns none,
\* EncodeMetrics is called once, after FromMetrics, on the model returned.
MarshalFailFast ==
  ret.op = "Marshal" =>
    /\ ret.translated.err # NilError =>
         /\ ret.err # NilError
         /\ ret.err.wraps = ret.translated.err
         /\ buf = NilBytes
         /\ Made("EncodeMetrics") = {}
    /\ ret.translated.err = NilError =>
         calls = << Call("FromMetrics", ret.in),
                    Call("EncodeMetrics", ret.translated.model) >>

\* A translator failed and returned a model with its error.
MarshalFailFastWitness ==
  /\ ret.op = "Marshal"
  /\ ret.translated.err # NilError
  /\ ret.translated.model = "modelA"
  /\ calls = << Call("FromMetrics", ret.in) >>

\* C4: when the decoder fails, ToMetrics is not called; on an error of
\* either stage Unmarshal returns the zero Metrics and an error, not what
\* the failed stage returned; no stage is called twice.  On an error
\* MetricsFromOtlpProtoBytes returns the zero Metrics too.
UnmarshalFailFast ==
  /\ ret.op = "Unmarshal" =>
       /\ ret.decoded.err # NilError => Made("ToMetrics") = {}
       /\ (ret.decoded.err # NilError \/ ret.translated.err # NilError) =>
            ret.td = ZeroMetrics /\ ret.err # NilError
       /\ Cardinality(Made("DecodeMetrics")) = 1
       /\ Cardinality(Made("ToMetrics")) <= 1
  /\ (ret.op = "MetricsFromOtlpProtoBytes" /\ ret.err # NilError) =>
       ret.val = ZeroMetrics

\* A translator failed and returned a Metrics with its error.
UnmarshalFailFastWitness ==
  /\ ret.op = "Unmarshal"
  /\ ret.decoded.err = NilError
  /\ ret.translated.err # NilError
  /\ ret.translated.td = NewMetrics
  /\ ret.td = ZeroMetrics

\* C5 as stated: the four stage errors are wrapped with "converting to
\* model failed", "marshal failed", "unmarshal failed" and "converting to
\* canonical failed".
ErrorContextAsStated ==
  /\ ret.op = "Marshal" =>
       /\ ret.translated.err # NilError =>
            ret.err = Errorf("converting to model failed", ret.translated.err)
       /\ (ret.translated.err = NilError /\ ret.encoded.err # NilError) =>
            ret.err = Errorf("marshal failed", ret.encoded.err)
  /\ ret.op = "Unmarshal" =>
       /\ ret.decoded.err # NilError =>
            ret.err = Errorf("unmarshal failed", ret.decoded.err)
       /\ (ret.decoded.err = NilError /\ ret.translated.err # NilError) =>
            ret.err = Errorf("converting to canonical failed", ret.translated.err)

\* C5 amended: the four stage errors are wrapped with "converting pdata to
\* model failed", "marshal failed", "unmarshal failed" and "converting model
\* to pdata failed": four distinct prefixes, each wrapping its cause.
ErrorContext ==
  /\ ret.op = "Marshal" =>
       /\ ret.translated.err # NilError =>
            ret.err = Errorf("converting pdata to model failed", ret.translated.err)
       /\ (ret.translated.err = NilError /\ ret.encoded.err # NilError) =>
            ret.err = Errorf("marshal failed", ret.encoded.err)
  /\ ret.op = "Unmarshal" =>
       /\ ret.decoded.err # NilError =>
            ret.err = Errorf("unmarshal failed", ret.decoded.err)
       /\ (ret.decoded.err = NilError /\ ret.translated.err # NilError) =>
            ret.err = Errorf("converting model to pdata failed", ret.translated.err)

\* A translation error of Unmarshal came back wrapped.
ErrorContextWitness ==
  /\ ret.op = "Unmarshal"
  /\ ret.err = Errorf("converting model to pdata failed", [msg |-> "invalid"])

====
